---- MODULE Spec2Model ----
(***************************************************************************)
(* Model of kscout/auto-cluster.                                           *)
(*                                                                         *)
(* Plan engine: controller.NewArchetypePlan (controller/plan.go) computes  *)
(* an ArchetypePlan from an ArchetypeSpec and an ArchetypeStatus.          *)
(*                                                                         *)
(* Cluster names are unique identifiers (cluster/cluster.go:10-13); they   *)
(* are modelled as the integers 1..MaxClusters.  Times and durations are   *)
(* integers in one common unit.                                            *)
(***************************************************************************)
EXTENDS Integers, Sequences, FiniteSets, TLC

\* ------------------------------------------------------------------ bounds
MaxClusters == 2      \* most clusters in an ArchetypeStatus
MaxCreatedOn == 1     \* CreatedOn ranges over 0..MaxCreatedOn
MaxDuration == 2      \* DeleteAfter, OldestPrimary range over 1..MaxDuration
MaxCount == 2         \* spec.Replicas.Count ranges over 0..MaxCount
MaxDrift == 1         \* the clock advances at most this much during one call
MaxRaise == 1         \* largest k by which Replicas.Count is raised (C10)
MaxNames == 3         \* mkClusterName draws its names from 1..MaxNames
MaxArchetypes == 2    \* most entries of cfg.Archetypes
MaxCycles == 2        \* reconcile cycles followed per run of the process
MaxRecords == 2       \* most Cloudflare DNS records of the legacy loop
MaxInstances == 2     \* most EC2 instances the inventory lists
MaxNameLen == 3       \* longest instance name, in characters
MaxRuns == 2          \* most logRunCmd calls of one Execute pass
MaxLines == 1         \* most lines a subprocess writes to one stream

VARIABLES
    spec,          \* the ArchetypeSpec handed to NewArchetypePlan
    statusBefore,  \* caller's status.Clusters when the call is made
    status,        \* caller's status.Clusters as the caller sees it now
    since,         \* the clock readings of the time.Since calls of the run
    primCluster,   \* local primCluster after garbage collection (0 = nil)
    collected,     \* len(plan.DeleteClusters) after garbage collection
    plan,          \* the ArchetypePlan under construction / returned
    pc,            \* "call", "returned" or "panicked"
    \* Executor.Execute (controller/executor.go); Executor.Status and
    \* Executor.Plan are the variables status and plan
    epc,           \* "run", "naming", "done" (returned nil), "failed"
    created,       \* i of the creation loop: creations completed
    deleted,       \* teardowns of plan.DeleteClusters completed
    clusterName,   \* local clusterName of the creation in progress
    passClashed,   \* the last pass of the name search met a known name
    stateDirs,     \* names with a directory under Cfg.StateDir
    invocations,   \* the openshift-install runs so far, in order
    \* main and Controller.Run / Controller.reconcile
    archetypes,    \* len(cfg.Archetypes)
    dryRun,        \* Controller.dryRun, the -dry-run flag
    rpc,           \* where main is: "select", "cycle", "completed", "fatal",
                   \* "crashed", "hung"
    timer,         \* Run's timer: "armed", "ready" (tick in timer.C), "drained"
    timerWait,     \* the duration the timer was last armed with
    armedAfter,    \* cycles finished when the timer was last armed
    sig,           \* the interrupt: "none", "pending" (in sigs), "handled"
    cancelled,     \* ctx.Done() is closed
    cycles,        \* reconcile cycles started
    finished,      \* reconcile cycles that returned nil
    arch,          \* index of the archetype reconcile is at
    attempted,     \* archetypes whose pass was begun in the current cycle
    statusFailed,  \* archetype whose status failed in this cycle (0 = none)
    executions,    \* Executor.Execute calls so far
    \* the legacy control loop of main
    build,         \* which main: "main.go" (migrate) or "part_010" (Helm)
    flags,         \* Flags: Once, DryRun, NoDNS
    lcfg,          \* Config: whether Helm.Chart is set
    lstate,        \* what the get state stage found: clusters, records
    lplan,         \* the plans of the iteration: Create, Second, Set, Delete
    lpc,           \* where the loop is: "wake", "execute", "wait", "exited",
                   \* "fatal"
    done,          \* the execute stage's steps of this iteration, in order
    \* cluster.NewArchetypeStatus
    gprefix,       \* spec.NamePrefix
    inventory,     \* the running instances with a Name tag, as EC2 lists them
    gstatus,       \* the ArchetypeStatus returned
    gpc,           \* "call", "returned" or "failed"
    \* logRunCmd, as the Executor calls it for one cluster after another
    rpos,          \* "idle" (between calls), "waiting" (in cmd.Wait),
                   \* "stopped" (Execute returned), "fatal" (log.Fatalf)
    runs,          \* logRunCmd calls so far
    proc,          \* the subprocess of the last call: "unstarted",
                   \* "running", "exited"
    live,          \* subprocesses started and not yet exited
    written,       \* lines the subprocess wrote, per stream
    pipe,          \* lines in the pipe not yet read, per stream
    logged,        \* lines the log reader printed, per stream
    closed,        \* the read end of the pipe is closed, per stream
    reader,        \* the log reader goroutine, per stream: "reading",
                   \* "done", "failed"
    stale,         \* a log reader of an earlier call is still reading
    conf,          \* main's cfg, the Config NewConfig returned
    twin,          \* a Config that differs from cfg in PullSecret at most
    loaded,        \* conf and twin as NewConfig returned them
    shown          \* what String() returned, for conf and for twin

planVars == <<spec, statusBefore, status, since, primCluster, collected,
              plan, pc>>

execVars == <<epc, created, deleted, clusterName, passClashed, stateDirs,
              invocations>>

ctrlVars == <<archetypes, dryRun, rpc, timer, timerWait, armedAfter, sig,
              cancelled, cycles, finished, arch, attempted, statusFailed,
              executions>>

legacyVars == <<build, flags, lcfg, lstate, lplan, lpc, done>>

groupVars == <<gprefix, inventory, gstatus, gpc>>

runVars == <<rpos, runs, proc, live, written, pipe, logged, closed, reader,
             stale>>

confVars == <<conf, twin, loaded, shown>>

vars == <<planVars, execVars, ctrlVars, legacyVars, groupVars, runVars,
          confVars>>

\* the value of a variable that belongs to a part of the program the
\* specification at hand does not run
NoValue == "-"

\* ------------------------------------------------------------------ types

\* cluster.ClusterStatus (Instances play no part in planning)
ClusterStatus == [Name : 1..MaxClusters, CreatedOn : 0..MaxCreatedOn]

\* cluster.ArchetypeSpec, the fields NewArchetypePlan reads
ArchetypeSpec ==
    [Count : 0..MaxCount,
     DeleteAfterDuration : 1..MaxDuration,
     OldestPrimaryDuration : 1..MaxDuration]

\* cluster.ArchetypeStatus.Clusters: a slice filled from a map whose keys
\* are the cluster names, so names are pairwise distinct and the order is
\* the (arbitrary) map iteration order.
ArchetypeStatus ==
    UNION { { s \in [1..n -> ClusterStatus] :
                \A i, j \in 1..n : i # j => s[i].Name # s[j].Name } :
            n \in 0..MaxClusters }

\* The instant the process starts the call; no cluster was created later.
CallTime == MaxCreatedOn

\* The clock readings of one run: reading i is the value of time.Now()
\* inside the i-th call of time.Since.  The clock never runs backwards.
Readings(n) ==
    { r \in [1..n -> CallTime..(CallTime + MaxDrift)] :
        \A i, j \in 1..n : i <= j => r[i] <= r[j] }

\* ------------------------------------------------------------- operators

\* time.Time.Before
Before(t, u) == t < u

\* all orders in which the elements of a slice can be arranged
Arrangements(s) ==
    { [i \in 1..Len(s) |-> s[f[i]]] : f \in Permutations(1..Len(s)) }

\* sort.Slice(status.Clusters, less) with less = CreatedOn.Before.
\* sort.Slice is not stable: clusters with equal CreatedOn may end in any
\* relative order, so the result is any arrangement that less accepts.
SortSlice(clusters) ==
    { s \in Arrangements(clusters) :
        \A i, j \in 1..Len(s) :
            i < j => ~Before(s[j].CreatedOn, s[i].CreatedOn) }

\* The planning state threaded through the function body.
\*   clusters       the shared backing array of status.Clusters (sorted)
\*   length         len(status.Clusters) of the callee's slice header
\*   primCluster    0 for nil, otherwise the index it points at
\*   panic          "none", or the run-time panic that ended the call
InitialPlanning(clusters) ==
    [clusters       |-> clusters,
     length         |-> Len(clusters),
     DeleteClusters |-> <<>>,
     CreateClusters |-> 0,
     primCluster    |-> IF Len(clusters) > 0 THEN 1 ELSE 0,
     panic          |-> "none"]

\* One iteration of the garbage collection loop for clusters[i]
GarbageCollectOne(sp, st, i, now) ==
    LET cluster == st.clusters[i] IN
    IF now - cluster.CreatedOn >= sp.DeleteAfterDuration
    THEN IF st.primCluster = 0
         THEN \* primCluster.Name with primCluster == nil
              [st EXCEPT !.DeleteClusters = Append(@, cluster),
                         !.panic = "nil pointer dereference"]
         ELSE [st EXCEPT !.DeleteClusters = Append(@, cluster),
                         !.primCluster =
                             IF cluster.Name = st.clusters[@].Name
                             THEN 0 ELSE @]
    ELSE st

RECURSIVE GarbageCollectFrom(_, _, _, _)
GarbageCollectFrom(sp, st, i, snc) ==
    IF i > Len(st.clusters) \/ st.panic # "none"
    THEN st
    ELSE GarbageCollectFrom(sp, GarbageCollectOne(sp, st, i, snc[i]),
                            i + 1, snc)

\* "Garbage collect old clusters"
GarbageCollect(sp, st, snc) == GarbageCollectFrom(sp, st, 1, snc)

\* The comparison written with the operands' roles confused.
ReelectPrimaryInverted(sp, st, now) ==
    IF st.panic = "none" /\ st.primCluster # 0
       /\ now - st.clusters[st.primCluster].CreatedOn
              <= sp.OldestPrimaryDuration
    THEN [st EXCEPT !.primCluster = 0, !.CreateClusters = @ + 1]
    ELSE st

\* The candidate is cleared but no replacement is requested.
ReelectPrimaryNoCreate(sp, st, now) ==
    IF st.panic = "none" /\ st.primCluster # 0
       /\ now - st.clusters[st.primCluster].CreatedOn
              >= sp.OldestPrimaryDuration
    THEN [st EXCEPT !.primCluster = 0]
    ELSE st

\* "Make a new primary if the current primary is too old"
ReelectPrimary(sp, st, now) ==
    IF st.panic = "none" /\ st.primCluster # 0
       /\ now - st.clusters[st.primCluster].CreatedOn
              >= sp.OldestPrimaryDuration
    THEN [st EXCEPT !.primCluster = 0, !.CreateClusters = @ + 1]
    ELSE st

\* The loop "for i := 0; i < delCount; i++" that moves the last element of
\* the callee's slice to DeleteClusters and shrinks the slice by one.
RECURSIVE DeleteFromEnd(_, _)
DeleteFromEnd(st, delCount) ==
    IF delCount = 0
    THEN st
    ELSE IF st.length = 0
         THEN \* status.Clusters[len(status.Clusters)-1] on an empty slice
              [st EXCEPT !.panic = "index out of range"]
         ELSE DeleteFromEnd(
                  [st EXCEPT !.DeleteClusters =
                                 Append(@, st.clusters[st.length]),
                             !.length = @ - 1],
                  delCount - 1)

\* The shortfall branch creating one cluster instead of the shortfall.
MatchReplicaCountOneMore(sp, st) ==
    IF st.panic # "none"
    THEN st
    ELSE LET afterPlanCount == Len(st.clusters) + st.CreateClusters
                                   - Len(st.DeleteClusters)
         IN  IF afterPlanCount > sp.Count
             THEN DeleteFromEnd(st, afterPlanCount - sp.Count)
             ELSE IF afterPlanCount < sp.Count
                  THEN [st EXCEPT !.CreateClusters = @ + 1]
                  ELSE st

\* The deletion loop running once too often.
MatchReplicaCountOffByOne(sp, st) ==
    IF st.panic # "none"
    THEN st
    ELSE LET afterPlanCount == Len(st.clusters) + st.CreateClusters
                                   - Len(st.DeleteClusters)
         IN  IF afterPlanCount > sp.Count
             THEN DeleteFromEnd(st, afterPlanCount - sp.Count + 1)
             ELSE IF afterPlanCount < sp.Count
                  THEN [st EXCEPT !.CreateClusters =
                                      @ + (sp.Count - afterPlanCount)]
                  ELSE st

\* The shortfall branch setting createClusters to the replica count.
MatchReplicaCountToCount(sp, st) ==
    IF st.panic # "none"
    THEN st
    ELSE LET afterPlanCount == Len(st.clusters) + st.CreateClusters
                                   - Len(st.DeleteClusters)
         IN  IF afterPlanCount > sp.Count
             THEN DeleteFromEnd(st, afterPlanCount - sp.Count)
             ELSE IF afterPlanCount < sp.Count
                  THEN [st EXCEPT !.CreateClusters = sp.Count]
                  ELSE st

\* "Create / delete more clusters to match spec.Replicas.Count".
\* The uint arithmetic cannot wrap: garbage collection appends each of the
\* len(status.Clusters) clusters at most once.
MatchReplicaCount(sp, st) ==
    IF st.panic # "none"
    THEN st
    ELSE LET afterPlanCount == Len(st.clusters) + st.CreateClusters
                                   - Len(st.DeleteClusters)
         IN  IF afterPlanCount > sp.Count
             THEN DeleteFromEnd(st, afterPlanCount - sp.Count)
             ELSE IF afterPlanCount < sp.Count
                  THEN [st EXCEPT !.CreateClusters =
                                      @ + (sp.Count - afterPlanCount)]
                  ELSE st

\* NewArchetypePlan after the sort: sorted is status.Clusters as sort.Slice
\* left it, snc the clock readings (one per cluster for the garbage
\* collection loop, one more for the primary check).
NewArchetypePlan(sp, sorted, snc) ==
    LET swept     == GarbageCollect(sp, InitialPlanning(sorted), snc)
        reelected == ReelectPrimary(sp, swept, snc[Len(sorted) + 1])
        matched   == MatchReplicaCount(sp, reelected)
    IN  [DeleteClusters |-> matched.DeleteClusters,
         CreateClusters |-> matched.CreateClusters,
         afterCollect   |-> swept.primCluster,
         collectedCount |-> Len(swept.DeleteClusters),
         panic          |-> matched.panic]

\* ------------------------------------------------------------ state machine

EmptyPlan == [DeleteClusters |-> <<>>, CreateClusters |-> 0]

\* the configuration has not been loaded
ConfigAbsent ==
    /\ conf = NoValue
    /\ twin = NoValue
    /\ loaded = NoValue
    /\ shown = NoValue

\* logRunCmd has not been called
RunAbsent ==
    /\ rpos = NoValue
    /\ runs = 0
    /\ proc = NoValue
    /\ live = 0
    /\ written = NoValue
    /\ pipe = NoValue
    /\ logged = NoValue
    /\ closed = NoValue
    /\ reader = NoValue
    /\ stale = FALSE

\* NewArchetypeStatus has not been called
GroupAbsent ==
    /\ gprefix = NoValue
    /\ inventory = NoValue
    /\ gstatus = NoValue
    /\ gpc = NoValue

\* the legacy control loop is not running
LegacyAbsent ==
    /\ build = NoValue
    /\ flags = NoValue
    /\ lcfg = NoValue
    /\ lstate = NoValue
    /\ lplan = NoValue
    /\ lpc = NoValue
    /\ done = <<>>

\* no Controller is running
ControllerAbsent ==
    /\ archetypes = 0
    /\ dryRun = FALSE
    /\ rpc = NoValue
    /\ timer = NoValue
    /\ timerWait = 0
    /\ armedAfter = 0
    /\ sig = NoValue
    /\ cancelled = FALSE
    /\ cycles = 0
    /\ finished = 0
    /\ arch = 0
    /\ attempted = {}
    /\ statusFailed = 0
    /\ executions = 0

\* no Executor has been built
ExecutorAbsent ==
    /\ epc = NoValue
    /\ created = 0
    /\ deleted = 0
    /\ clusterName = 0
    /\ passClashed = FALSE
    /\ stateDirs = {}
    /\ invocations = <<>>

Init ==
    /\ spec \in ArchetypeSpec
    /\ statusBefore \in ArchetypeStatus
    /\ status = statusBefore
    /\ since = <<>>
    /\ primCluster = 0
    /\ collected = 0
    /\ plan = EmptyPlan
    /\ pc = "call"
    /\ ExecutorAbsent
    /\ ControllerAbsent
    /\ LegacyAbsent
    /\ GroupAbsent
    /\ RunAbsent
    /\ ConfigAbsent

\* plan := NewArchetypePlan(spec, status), as Controller.reconcile calls it.
\* status is passed by value but its Clusters slice shares the caller's
\* backing array, so the caller sees the sorted order afterwards.
CallNewArchetypePlan ==
    /\ pc = "call"
    /\ \E sorted \in SortSlice(status), snc \in Readings(Len(status) + 1) :
         LET r == NewArchetypePlan(spec, sorted, snc) IN
         /\ status' = sorted
         /\ since' = snc
         /\ primCluster' = r.afterCollect
         /\ collected' = r.collectedCount
         /\ plan' = [DeleteClusters |-> r.DeleteClusters,
                     CreateClusters |-> r.CreateClusters]
         /\ pc' = IF r.panic = "none" THEN "returned" ELSE "panicked"
    /\ UNCHANGED <<spec, statusBefore>>
    /\ UNCHANGED <<execVars, ctrlVars, legacyVars, groupVars, runVars,
                   confVars>>

Next == CallNewArchetypePlan

Spec == Init /\ [][Next]_vars

\* --------------------------------------------------------------- Executor

\* the names mkClusterName(prefix) can return: the prefix and one of the
\* random postfixes.  Names of observed clusters are among them.
GenNames == 1..MaxNames

\* One run of "for _, cluster := range e.Status.Clusters" in the search for
\* a unique name: on a match nameClash is set and the name is drawn again;
\* rolls[k] is what mkClusterName returns when cluster k matches.
RECURSIVE NamePass(_, _, _, _)
NamePass(clusters, k, st, rolls) ==
    IF k > Len(clusters)
    THEN st
    ELSE IF clusters[k].Name = st.clusterName
         THEN NamePass(clusters, k + 1,
                       [clusterName |-> rolls[k], nameClash |-> TRUE], rolls)
         ELSE NamePass(clusters, k + 1, st, rolls)

\* what can go wrong between the choice of the name and the end of the
\* openshift-install run of one creation
CreateOutcomes == {"ok", "mkdir error", "config error", "tool error"}

\* executor := Executor{Cfg, Status: status, Plan: plan}: the status and the
\* plan are those of a NewArchetypePlan call that returned.
ExecInit ==
    /\ \E sp \in ArchetypeSpec, st \in ArchetypeStatus :
         \E sorted \in SortSlice(st), snc \in Readings(Len(st) + 1) :
           LET r == NewArchetypePlan(sp, sorted, snc) IN
           /\ r.panic = "none"
           /\ status = sorted
           /\ plan = [DeleteClusters |-> r.DeleteClusters,
                      CreateClusters |-> r.CreateClusters]
    /\ spec = NoValue
    /\ statusBefore = NoValue
    /\ since = NoValue
    /\ primCluster = NoValue
    /\ collected = NoValue
    /\ pc = "returned"
    /\ epc = "run"
    /\ created = 0
    /\ deleted = 0
    /\ clusterName = 0
    /\ passClashed = FALSE
    /\ stateDirs = {}
    /\ invocations = <<>>
    /\ ControllerAbsent
    /\ LegacyAbsent
    /\ GroupAbsent
    /\ RunAbsent
    /\ ConfigAbsent

\* One iteration of the creation loop (executor.go:91-149).
ExecCreate ==
    /\ epc = "run"
    /\ created < plan.CreateClusters
    /\ \E first \in GenNames, rolls \in [1..Len(status) -> GenNames],
          outcome \in CreateOutcomes :
         LET pass == NamePass(status, 1,
                              [clusterName |-> first, nameClash |-> FALSE],
                              rolls)
         IN
         IF pass.nameClash
         THEN \* nameClash is never reset: the search loop goes round again
              /\ epc' = "naming"
              /\ clusterName' = pass.clusterName
              /\ passClashed' = TRUE
              /\ UNCHANGED <<created, stateDirs, invocations>>
         ELSE /\ clusterName' = pass.clusterName
              /\ passClashed' = FALSE
              /\ stateDirs' = IF outcome = "mkdir error"
                              THEN stateDirs
                              ELSE stateDirs \cup {pass.clusterName}
              /\ invocations' =
                     IF outcome \in {"ok", "tool error"}
                     THEN Append(invocations,
                                 [action |-> "create",
                                  name   |-> pass.clusterName,
                                  ok     |-> outcome = "ok"])
                     ELSE invocations
              /\ created' = IF outcome = "ok" THEN created + 1 ELSE created
              /\ epc' = IF outcome = "ok" THEN "run" ELSE "failed"
    /\ UNCHANGED deleted
    /\ UNCHANGED <<planVars, ctrlVars, legacyVars, groupVars, runVars,
                   confVars>>

\* A further round of "for firstRun || nameClash" after a clash: nameClash
\* stays true whether or not this pass meets a known name.
ExecNameAgain ==
    /\ epc = "naming"
    /\ \E rolls \in [1..Len(status) -> GenNames] :
         LET pass == NamePass(status, 1,
                              [clusterName |-> clusterName,
                               nameClash |-> FALSE],
                              rolls)
         IN /\ clusterName' = pass.clusterName
            /\ passClashed' = pass.nameClash
    /\ UNCHANGED <<epc, created, deleted, stateDirs, invocations>>
    /\ UNCHANGED <<planVars, ctrlVars, legacyVars, groupVars, runVars,
                   confVars>>

\* One iteration of the deletion loop, entered while creations are left.
ExecDeleteEarly ==
    /\ epc = "run"
    /\ deleted < Len(plan.DeleteClusters)
    /\ \E ok \in BOOLEAN :
         /\ invocations' =
                Append(invocations,
                       [action |-> "destroy",
                        name   |-> plan.DeleteClusters[deleted + 1].Name,
                        ok     |-> ok])
         /\ deleted' = IF ok THEN deleted + 1 ELSE deleted
         /\ epc' = IF ok THEN "run" ELSE "failed"
    /\ UNCHANGED <<created, clusterName, passClashed, stateDirs>>
    /\ UNCHANGED <<planVars, ctrlVars, legacyVars, groupVars, runVars,
                   confVars>>

\* One iteration of the deletion loop (executor.go:152-165).
ExecDelete ==
    /\ epc = "run"
    /\ created = plan.CreateClusters
    /\ deleted < Len(plan.DeleteClusters)
    /\ \E ok \in BOOLEAN :
         /\ invocations' =
                Append(invocations,
                       [action |-> "destroy",
                        name   |-> plan.DeleteClusters[deleted + 1].Name,
                        ok     |-> ok])
         /\ deleted' = IF ok THEN deleted + 1 ELSE deleted
         /\ epc' = IF ok THEN "run" ELSE "failed"
    /\ UNCHANGED <<created, clusterName, passClashed, stateDirs>>
    /\ UNCHANGED <<planVars, ctrlVars, legacyVars, groupVars, runVars,
                   confVars>>

\* "return nil" at executor.go:167
ExecReturn ==
    /\ epc = "run"
    /\ created = plan.CreateClusters
    /\ deleted = Len(plan.DeleteClusters)
    /\ epc' = "done"
    /\ UNCHANGED <<created, deleted, clusterName, passClashed, stateDirs,
                   invocations>>
    /\ UNCHANGED <<planVars, ctrlVars, legacyVars, groupVars, runVars,
                   confVars>>

ExecNext == ExecCreate \/ ExecNameAgain \/ ExecDelete \/ ExecReturn

SpecExec == ExecInit /\ [][ExecNext]_vars

\* ------------------------------------------------------------- Controller

\* reconcileLoopWait, in seconds
ReconcileLoopWait == 15

\* what the pass of one archetype can come to in Controller.reconcile
PassOutcomes ==
    {"ok", "status error", "plan panic", "execute error", "execute hangs"}

\* main up to ctrl.Run: the signal goroutine waits, the configuration is
\* loaded, the flags are parsed, and Run has made its timer, NewTimer(0).
CtrlInit ==
    /\ archetypes \in 1..MaxArchetypes
    /\ dryRun \in BOOLEAN
    /\ rpc = "select"
    /\ timer = "armed"
    /\ timerWait = 0
    /\ armedAfter = 0
    /\ sig = "none"
    /\ cancelled = FALSE
    /\ cycles = 0
    /\ finished = 0
    /\ arch = 0
    /\ attempted = {}
    /\ statusFailed = 0
    /\ executions = 0
    /\ spec = NoValue
    /\ statusBefore = NoValue
    /\ status = NoValue
    /\ since = NoValue
    /\ primCluster = NoValue
    /\ collected = NoValue
    /\ plan = NoValue
    /\ pc = NoValue
    /\ ExecutorAbsent
    /\ LegacyAbsent
    /\ GroupAbsent
    /\ RunAbsent
    /\ ConfigAbsent

\* the process is still running
Alive == rpc \in {"select", "cycle", "hung"}

\* An interrupt signal reaches the process: os/signal puts it in sigs.
Interrupt ==
    /\ Alive
    /\ sig = "none"
    /\ sig' = "pending"
    /\ UNCHANGED <<archetypes, dryRun, rpc, timer, timerWait, armedAfter,
                   cancelled, cycles, finished, arch, attempted,
                   statusFailed, executions>>
    /\ UNCHANGED <<planVars, execVars, legacyVars, groupVars, runVars,
                   confVars>>

\* main's goroutine receives from sigs and calls cancelCtx().
HandleSignal ==
    /\ Alive
    /\ sig = "pending"
    /\ sig' = "handled"
    /\ cancelled' = TRUE
    /\ UNCHANGED <<archetypes, dryRun, rpc, timer, timerWait, armedAfter,
                   cycles, finished, arch, attempted, statusFailed,
                   executions>>
    /\ UNCHANGED <<planVars, execVars, legacyVars, groupVars, runVars,
                   confVars>>

\* The timer's duration has passed: the runtime sends on timer.C.
TimerFire ==
    /\ Alive
    /\ timer = "armed"
    /\ timer' = "ready"
    /\ UNCHANGED <<archetypes, dryRun, rpc, timerWait, armedAfter, sig,
                   cancelled, cycles, finished, arch, attempted,
                   statusFailed, executions>>
    /\ UNCHANGED <<planVars, execVars, legacyVars, groupVars, runVars,
                   confVars>>

\* select takes "case <-ctx.Done()": Run returns nil and main logs
\* "completed graceful shutdown".
RunCancelled ==
    /\ rpc = "select"
    /\ cancelled
    /\ rpc' = "completed"
    /\ UNCHANGED <<archetypes, dryRun, timer, timerWait, armedAfter, sig,
                   cancelled, cycles, finished, arch, attempted,
                   statusFailed, executions>>
    /\ UNCHANGED <<planVars, execVars, legacyVars, groupVars, runVars,
                   confVars>>

\* select takes "case <-timer.C": a reconcile cycle starts.  When both
\* cases are ready select chooses either.
RunTick ==
    /\ rpc = "select"
    /\ timer = "ready"
    /\ cycles < MaxCycles
    /\ timer' = "drained"
    /\ rpc' = "cycle"
    /\ cycles' = cycles + 1
    /\ arch' = 1
    /\ attempted' = {}
    /\ statusFailed' = 0
    /\ UNCHANGED <<archetypes, dryRun, timerWait, armedAfter, sig, cancelled,
                   finished, executions>>
    /\ UNCHANGED <<planVars, execVars, legacyVars, groupVars, runVars,
                   confVars>>

\* The pass of one archetype with the execute stage run whatever dryRun is.
ReconcileArchetypeAlwaysExecutes ==
    /\ rpc = "cycle"
    /\ arch <= archetypes
    /\ attempted' = attempted \cup {arch}
    /\ \E outcome \in PassOutcomes :
         /\ statusFailed' = IF outcome = "status error" THEN arch ELSE 0
         /\ executions' =
                IF outcome \in {"ok", "execute error", "execute hangs"}
                THEN executions + 1 ELSE executions
         /\ rpc' = CASE outcome = "ok" -> "cycle"
                     [] outcome = "plan panic" -> "crashed"
                     [] outcome = "execute hangs" -> "hung"
                     [] OTHER -> "fatal"
         /\ arch' = IF outcome = "ok" THEN arch + 1 ELSE arch
    /\ UNCHANGED <<archetypes, dryRun, timer, timerWait, armedAfter, sig,
                   cancelled, cycles, finished>>
    /\ UNCHANGED <<planVars, execVars, legacyVars, groupVars, runVars,
                   confVars>>

\* The body of reconcile's loop for one archetype: NewArchetypeStatus,
\* NewArchetypePlan and, unless dryRun, Executor.Execute.  An error makes
\* reconcile and Run return it, and main ends the process with log.Fatalf.
ReconcileArchetype ==
    /\ rpc = "cycle"
    /\ arch <= archetypes
    /\ attempted' = attempted \cup {arch}
    /\ \E outcome \in PassOutcomes :
         /\ dryRun => outcome \notin {"execute error", "execute hangs"}
         /\ statusFailed' = IF outcome = "status error" THEN arch ELSE 0
         /\ executions' =
                IF ~dryRun
                   /\ outcome \in {"ok", "execute error", "execute hangs"}
                THEN executions + 1 ELSE executions
         /\ rpc' = CASE outcome = "ok" -> "cycle"
                     [] outcome = "plan panic" -> "crashed"
                     [] outcome = "execute hangs" -> "hung"
                     [] OTHER -> "fatal"
         /\ arch' = IF outcome = "ok" THEN arch + 1 ELSE arch
    /\ UNCHANGED <<archetypes, dryRun, timer, timerWait, armedAfter, sig,
                   cancelled, cycles, finished>>
    /\ UNCHANGED <<planVars, execVars, legacyVars, groupVars, runVars,
                   confVars>>

\* The timer armed again with no wait.
CycleDoneResetZero ==
    /\ rpc = "cycle"
    /\ arch = archetypes + 1
    /\ finished' = finished + 1
    /\ timer' = "armed"
    /\ timerWait' = 0
    /\ armedAfter' = finished + 1
    /\ rpc' = "select"
    /\ UNCHANGED <<archetypes, dryRun, sig, cancelled, cycles, arch,
                   attempted, statusFailed, executions>>
    /\ UNCHANGED <<planVars, execVars, legacyVars, groupVars, runVars,
                   confVars>>

\* reconcile returned nil: timer.Reset(reconcileLoopWait), back to select.
CycleDone ==
    /\ rpc = "cycle"
    /\ arch = archetypes + 1
    /\ finished' = finished + 1
    /\ timer' = "armed"
    /\ timerWait' = ReconcileLoopWait
    /\ armedAfter' = finished + 1
    /\ rpc' = "select"
    /\ UNCHANGED <<archetypes, dryRun, sig, cancelled, cycles, arch,
                   attempted, statusFailed, executions>>
    /\ UNCHANGED <<planVars, execVars, legacyVars, groupVars, runVars,
                   confVars>>

CtrlNext ==
    \/ Interrupt
    \/ HandleSignal
    \/ TimerFire
    \/ RunCancelled
    \/ RunTick
    \/ ReconcileArchetype
    \/ CycleDone

SpecCtrl == CtrlInit /\ [][CtrlNext]_vars

\* ------------------------------------------------- legacy control loop

\* NewArchetypePlan has not been called
PlanEngineAbsent ==
    /\ spec = NoValue
    /\ statusBefore = NoValue
    /\ status = NoValue
    /\ since = NoValue
    /\ primCluster = NoValue
    /\ collected = NoValue
    /\ plan = NoValue
    /\ pc = NoValue

\* the name the plan stage gives the cluster it plans to create
NewCluster == MaxClusters + 1

\* the second action of the execute stage: main.go migrates the namespace,
\* part_010 installs the Helm chart
SecondKind == IF build = "main.go" THEN "migrate" ELSE "helm"

\* Config.Cluster.OldestAge, in hours (its default)
OldestAge == 42

\* the age the search for the youngest cluster starts from, in hours
YoungestAgeStart == 48

\* the ages, in hours, the observed clusters can have
LegacyAges == {10, 20, 50}

\* the empty cluster name ""
NoCluster == 0

\* What the get state stage can find: the clusters map (name -> Age) and
\* the CNAME records that hold the name prefix, each with the cluster name
\* taken from its content.
LegacyStates ==
    [clusters : UNION {[names -> LegacyAges] : names \in SUBSET (1..MaxClusters)},
     records : UNION {[1..n -> 1..MaxClusters] : n \in 0..MaxRecords}]

\* the orders in which a range over a map can yield its keys
Orders(keys) ==
    { f \in [1..Cardinality(keys) -> keys] :
        \A i, j \in 1..Cardinality(keys) : i # j => f[i] # f[j] }

\* recordsCluster: the cluster every record points to, "" when there is no
\* record or when two records differ
RECURSIVE RecordsClusterFrom(_, _, _)
RecordsClusterFrom(records, i, rc) ==
    IF i > Len(records) THEN rc
    ELSE IF rc = NoCluster THEN RecordsClusterFrom(records, i + 1, records[i])
    ELSE IF rc # records[i] THEN NoCluster
    ELSE RecordsClusterFrom(records, i + 1, rc)

\* recordsCluster taken from the first record alone
RecordsClusterOfFirst(records) ==
    IF records = <<>> THEN NoCluster ELSE records[1]

RecordsCluster(records) == RecordsClusterFrom(records, 1, NoCluster)

\* the loop that finds youngestName among youngClusters
RECURSIVE YoungestFrom(_, _, _, _, _)
YoungestFrom(young, ages, i, youngestAge, youngestName) ==
    IF i > Len(young) THEN youngestName
    ELSE IF ages[young[i]] < youngestAge
         THEN YoungestFrom(young, ages, i + 1, ages[young[i]], young[i])
         ELSE YoungestFrom(young, ages, i + 1, youngestAge, youngestName)

\* The plan stage, for the clusters map iterated in the order ord.
\* With more than one young cluster primaryCluster is the address of the
\* range variable, which after the loop holds the last young cluster.
\* Primary = NoCluster stands for primaryCluster == nil.
LegacyPlan(b, cfg, st, ord) ==
    LET IsOld(c) == st.clusters[c] > OldestAge
        IsYoung(c) == ~IsOld(c)
        old == SelectSeq(ord, IsOld)
        young == SelectSeq(ord, IsYoung)
        recordsCluster == RecordsCluster(st.records)
        youngestName == YoungestFrom(young, st.clusters, 1,
                                     YoungestAgeStart, NoCluster)
        primary ==
            CASE Len(young) = 0 -> NewCluster
              [] Len(young) = 1 -> young[1]
              [] OTHER -> IF youngestName = NoCluster THEN NoCluster
                          ELSE young[Len(young)]
        DNSPointed == primary \in DOMAIN st.clusters /\ primary = recordsCluster
    IN [Create |-> IF Len(young) = 0 THEN {NewCluster} ELSE {},
        Delete |-> {old[i] : i \in DOMAIN old}
                   \cup (IF Len(young) > 1
                         THEN {young[i] : i \in DOMAIN young} \ {youngestName}
                         ELSE {}),
        Set |-> IF DNSPointed THEN {}
                ELSE {i \in DOMAIN st.records : st.records[i] # primary},
        Second |-> IF b = "main.go"
                   THEN primary # recordsCluster
                   ELSE /\ primary # recordsCluster
                        /\ cfg.Chart
                        /\ recordsCluster \in DOMAIN st.clusters,
        SecondOn |-> recordsCluster,
        Primary |-> primary]

\* the targets of the steps of one kind the execute stage is through with
Stepped(kind) == {done[i].target : i \in {j \in DOMAIN done : done[j].kind = kind}}

\* the external actions carried out in this iteration
Effects == SelectSeq(done, LAMBDA step : step.executed)

\* the locals of the loop body before the get state stage has run
NothingFound == [clusters |-> <<>>, records |-> <<>>]

NothingPlanned ==
    [Create |-> {}, Delete |-> {}, Set |-> {}, Second |-> FALSE,
     SecondOn |-> NoCluster, Primary |-> NoCluster]

\* main up to the control loop: configuration loaded, flags parsed, clients
\* made.  main.go has no -no-dns flag and no Helm configuration.
LegacyInit ==
    /\ build \in {"main.go", "part_010"}
    /\ flags \in [Once : BOOLEAN, DryRun : BOOLEAN, NoDNS : BOOLEAN]
    /\ build = "main.go" => ~flags.NoDNS
    /\ lcfg \in [Chart : BOOLEAN]
    /\ build = "main.go" => ~lcfg.Chart
    /\ lstate = NothingFound
    /\ lplan = NothingPlanned
    /\ lpc = "wake"
    /\ done = <<>>
    /\ PlanEngineAbsent
    /\ ExecutorAbsent
    /\ ControllerAbsent
    /\ GroupAbsent
    /\ RunAbsent
    /\ ConfigAbsent

\* Get state stage and plan stage of one iteration: a failed request or
\* parse is fatal, otherwise the plans are made from what was found.
LegacyPlanStage ==
    /\ lpc = "wake"
    /\ UNCHANGED done
    /\ \/ /\ lpc' = "fatal"
          /\ UNCHANGED <<lstate, lplan>>
       \/ \E st \in LegacyStates :
            \E ord \in Orders(DOMAIN st.clusters) :
              /\ lstate' = st
              /\ lplan' = LegacyPlan(build, lcfg, st, ord)
              /\ lpc' = IF lplan'.Primary = NoCluster THEN "fatal"
                        ELSE "execute"
    /\ UNCHANGED <<build, flags, lcfg>>
    /\ UNCHANGED <<planVars, execVars, ctrlVars, groupVars, runVars,
                   confVars>>

\* One pass of the loop over osInstallPlan.Create: run-openshift-install
\* create, then the Slack message with the credentials.
LegacyCreate ==
    /\ lpc = "execute"
    /\ \E c \in lplan.Create \ Stepped("create") :
         IF flags.DryRun
         THEN /\ done' = Append(done, [kind |-> "create", target |-> c,
                                       executed |-> FALSE, ok |-> TRUE])
              /\ UNCHANGED lpc
         ELSE \E outcome \in {"ok", "tool error", "notify error"} :
                /\ done' = Append(done, [kind |-> "create", target |-> c,
                                         executed |-> TRUE,
                                         ok |-> outcome # "tool error"])
                /\ lpc' = IF outcome = "ok" THEN "execute" ELSE "fatal"
    /\ UNCHANGED <<build, flags, lcfg, lstate, lplan>>
    /\ UNCHANGED <<planVars, execVars, ctrlVars, groupVars, runVars,
                   confVars>>

\* How the command of the second action can end: migrate-cluster.sh dies
\* when its -f option is empty, otherwise the command succeeds or fails.
SecondOutcomes ==
    IF build = "main.go" /\ lplan.SecondOn = NoCluster THEN {FALSE}
    ELSE BOOLEAN

\* The migrate plan (main.go) or the Helm plan (part_010), when there is one.
LegacySecond ==
    /\ lpc = "execute"
    /\ lplan.Create \subseteq Stepped("create")
    /\ lplan.Second
    /\ Stepped(SecondKind) = {}
    /\ IF flags.DryRun
       THEN /\ done' = Append(done, [kind |-> SecondKind,
                                     target |-> lplan.SecondOn,
                                     executed |-> FALSE, ok |-> TRUE])
            /\ UNCHANGED lpc
       ELSE \E ok \in SecondOutcomes :
              /\ done' = Append(done, [kind |-> SecondKind,
                                       target |-> lplan.SecondOn,
                                       executed |-> TRUE, ok |-> ok])
              /\ lpc' = IF ok THEN "execute" ELSE "fatal"
    /\ UNCHANGED <<build, flags, lcfg, lstate, lplan>>
    /\ UNCHANGED <<planVars, execVars, ctrlVars, groupVars, runVars,
                   confVars>>

\* the create loop and the second action are over
LegacyPastSecond ==
    /\ lplan.Create \subseteq Stepped("create")
    /\ lplan.Second => Stepped(SecondKind) # {}

\* One pass of the loop over cfDNSPlan.Set: cf.UpdateDNSRecord, in the
\* order of the records.  flags.NoDNS is not consulted.
LegacyDNS ==
    /\ lpc = "execute"
    /\ LegacyPastSecond
    /\ lplan.Set \ Stepped("dns") # {}
    /\ LET r == CHOOSE x \in lplan.Set \ Stepped("dns") :
                    \A y \in lplan.Set \ Stepped("dns") : x <= y
       IN IF flags.DryRun
          THEN /\ done' = Append(done, [kind |-> "dns", target |-> r,
                                        executed |-> FALSE, ok |-> TRUE])
               /\ UNCHANGED lpc
          ELSE \E ok \in BOOLEAN :
                 /\ done' = Append(done, [kind |-> "dns", target |-> r,
                                          executed |-> TRUE, ok |-> ok])
                 /\ lpc' = IF ok THEN "execute" ELSE "fatal"
    /\ UNCHANGED <<build, flags, lcfg, lstate, lplan>>
    /\ UNCHANGED <<planVars, execVars, ctrlVars, groupVars, runVars,
                   confVars>>

\* One pass of the loop over osInstallPlan.Delete, entered without waiting
\* for the create loop, the second action and the DNS loop.
LegacyDeleteEager ==
    /\ lpc = "execute"
    /\ \E c \in lplan.Delete \ Stepped("delete") :
         /\ lstate.clusters[c] <= OldestAge =>
                \A o \in lplan.Delete \ Stepped("delete") :
                    lstate.clusters[o] <= OldestAge
         /\ IF flags.DryRun
            THEN /\ done' = Append(done, [kind |-> "delete", target |-> c,
                                          executed |-> FALSE, ok |-> TRUE])
                 /\ UNCHANGED lpc
            ELSE \E ok \in BOOLEAN :
                   /\ done' = Append(done, [kind |-> "delete", target |-> c,
                                            executed |-> TRUE, ok |-> ok])
                   /\ lpc' = IF ok THEN "execute" ELSE "fatal"
    /\ UNCHANGED <<build, flags, lcfg, lstate, lplan>>
    /\ UNCHANGED <<planVars, execVars, ctrlVars, groupVars, runVars,
                   confVars>>

\* One pass of the loop over osInstallPlan.Delete: run-openshift-install
\* delete.  The old clusters come first, then the young ones, each group in
\* the order of the iteration over the clusters map.
LegacyDelete ==
    /\ lpc = "execute"
    /\ LegacyPastSecond
    /\ lplan.Set \subseteq Stepped("dns")
    /\ \E c \in lplan.Delete \ Stepped("delete") :
         /\ lstate.clusters[c] <= OldestAge =>
                \A o \in lplan.Delete \ Stepped("delete") :
                    lstate.clusters[o] <= OldestAge
         /\ IF flags.DryRun
            THEN /\ done' = Append(done, [kind |-> "delete", target |-> c,
                                          executed |-> FALSE, ok |-> TRUE])
                 /\ UNCHANGED lpc
            ELSE \E ok \in BOOLEAN :
                   /\ done' = Append(done, [kind |-> "delete", target |-> c,
                                            executed |-> TRUE, ok |-> ok])
                   /\ lpc' = IF ok THEN "execute" ELSE "fatal"
    /\ UNCHANGED <<build, flags, lcfg, lstate, lplan>>
    /\ UNCHANGED <<planVars, execVars, ctrlVars, groupVars, runVars,
                   confVars>>

\* The end of the iteration: os.Exit(0) with -once, else the wait of 15
\* minutes (time.Sleep or ctrlLoopTimer.Reset).
LegacyEnd ==
    /\ lpc = "execute"
    /\ LegacyPastSecond
    /\ lplan.Set \subseteq Stepped("dns")
    /\ lplan.Delete \subseteq Stepped("delete")
    /\ lpc' = IF flags.Once THEN "exited" ELSE "wait"
    /\ UNCHANGED <<build, flags, lcfg, lstate, lplan, done>>
    /\ UNCHANGED <<planVars, execVars, ctrlVars, groupVars, runVars,
                   confVars>>

\* The wait is over: the next iteration begins, with new locals.
LegacyWake ==
    /\ lpc = "wait"
    /\ lpc' = "wake"
    /\ lstate' = NothingFound
    /\ lplan' = NothingPlanned
    /\ done' = <<>>
    /\ UNCHANGED <<build, flags, lcfg>>
    /\ UNCHANGED <<planVars, execVars, ctrlVars, groupVars, runVars,
                   confVars>>

\* part_010 only: an interrupt cancelled the context and the select at the
\* top of the loop takes ctx.Done(): main returns.
LegacyInterrupted ==
    /\ build = "part_010"
    /\ lpc \in {"wake", "wait"}
    /\ lpc' = "exited"
    /\ UNCHANGED <<build, flags, lcfg, lstate, lplan, done>>
    /\ UNCHANGED <<planVars, execVars, ctrlVars, groupVars, runVars,
                   confVars>>

LegacyNext ==
    \/ LegacyPlanStage
    \/ LegacyCreate
    \/ LegacySecond
    \/ LegacyDNS
    \/ LegacyDelete
    \/ LegacyEnd
    \/ LegacyWake
    \/ LegacyInterrupted

SpecLegacy == LegacyInit /\ [][LegacyNext]_vars

\* ------------------------------------------------------ either main

\* The process is one of the two programs: the controller's main or the
\* legacy control loop.
MainInit == CtrlInit \/ LegacyInit

MainNext == CtrlNext \/ LegacyNext

SpecMain == MainInit /\ [][MainNext]_vars

\* ------------------------------------------------- NewArchetypeStatus

\* the characters of a name: a letter and the separator
Dash == "-"

Chars == {"x", Dash}

\* a string is the sequence of its characters
Strings(n) == UNION {[1..k -> Chars] : k \in 1..n}

\* the values of spec.NamePrefix: without and with a separator
Prefixes == {<<"x">>, <<"x", Dash>>}

\* the launch times of the instances
LaunchTimes == {0, 1}

EC2Instance == [Name : Strings(MaxNameLen), CreatedOn : LaunchTimes]

\* strings.HasPrefix
HasPrefix(str, prefix) ==
    /\ Len(str) >= Len(prefix)
    /\ SubSeq(str, 1, Len(prefix)) = prefix

\* strings.Split(str, "-"): parts holds the finished parts, cur the part
\* being read
RECURSIVE SplitFrom(_, _, _, _)
SplitFrom(str, i, parts, cur) ==
    IF i > Len(str) THEN Append(parts, cur)
    ELSE IF str[i] = Dash THEN SplitFrom(str, i + 1, Append(parts, cur), <<>>)
    ELSE SplitFrom(str, i + 1, parts, Append(cur, str[i]))

Split(str) == SplitFrom(str, 1, <<>>, <<>>)

\* strings.Join(parts[:n], "-")
RECURSIVE Join(_, _)
Join(parts, n) ==
    IF n = 0 THEN <<>>
    ELSE IF n = 1 THEN parts[1]
    ELSE Join(parts, n - 1) \o <<Dash>> \o parts[n]

\* The loop that extracts the cluster name; i counts from 0 as in the code.
RECURSIVE ClusterNameFrom(_, _, _, _)
ClusterNameFrom(parts, prefix, i, name) ==
    IF ~HasPrefix(name, prefix) /\ i < Len(parts)
    THEN ClusterNameFrom(parts, prefix, i + 1, Join(parts, i))
    ELSE name

ClusterNameOf(instanceName, prefix) ==
    ClusterNameFrom(Split(instanceName), prefix, 0, <<>>)

\* the instances the inventory loop keeps: those whose Name tag starts with
\* the prefix
Matching(instances, prefix) ==
    LET Keeps(instance) == HasPrefix(instance.Name, prefix)
    IN SelectSeq(instances, Keeps)

\* Save in clusters map, with the instance list of a known cluster replaced.
SaveInClusterReplacing(clusters, instance, name) ==
    IF name \in DOMAIN clusters
    THEN [clusters EXCEPT ![name].Instances = <<instance>>]
    ELSE clusters @@ (name :> [Name |-> name,
                               CreatedOn |-> instance.CreatedOn,
                               Instances |-> <<instance>>])

\* Save in clusters map: append to the cluster of that name, or make it with
\* the instance's CreatedOn.
SaveInCluster(clusters, instance, name) ==
    IF name \in DOMAIN clusters
    THEN [clusters EXCEPT ![name].Instances = Append(@, instance)]
    ELSE clusters @@ (name :> [Name |-> name,
                               CreatedOn |-> instance.CreatedOn,
                               Instances |-> <<instance>>])

\* the loop over instances that fills the clusters map
RECURSIVE GroupFrom(_, _, _, _)
GroupFrom(instances, prefix, i, clusters) ==
    IF i > Len(instances) THEN clusters
    ELSE GroupFrom(instances, prefix, i + 1,
                   SaveInCluster(clusters, instances[i],
                                 ClusterNameOf(instances[i].Name, prefix)))

\* the clusters map NewArchetypeStatus builds from the inventory
GroupInstances(instances, prefix) ==
    GroupFrom(Matching(instances, prefix), prefix, 1, <<>>)

GroupInit ==
    /\ gprefix \in Prefixes
    /\ inventory \in UNION {[1..n -> EC2Instance] : n \in 0..MaxInstances}
    /\ gstatus = [Clusters |-> <<>>]
    /\ gpc = "call"
    /\ PlanEngineAbsent
    /\ ExecutorAbsent
    /\ ControllerAbsent
    /\ LegacyAbsent
    /\ RunAbsent
    /\ ConfigAbsent

\* NewArchetypeStatus(ec2, spec): a failed DescribeInstances returns the
\* error; otherwise status.Clusters lists the values of the clusters map in
\* the order the range over the map yields them.
CallNewArchetypeStatus ==
    /\ gpc = "call"
    /\ \/ /\ gpc' = "failed"
          /\ UNCHANGED gstatus
       \/ LET clusters == GroupInstances(inventory, gprefix)
          IN \E ord \in Orders(DOMAIN clusters) :
               /\ gstatus' = [Clusters |-> [i \in DOMAIN ord |-> clusters[ord[i]]]]
               /\ gpc' = "returned"
    /\ UNCHANGED <<gprefix, inventory>>
    /\ UNCHANGED <<planVars, execVars, ctrlVars, legacyVars, runVars,
                   confVars>>

GroupNext == CallNewArchetypeStatus

SpecGroup == GroupInit /\ [][GroupNext]_vars

\* ------------------------------------- names from Executor to grouping

\* randstr.String(4): the length of the random postfix
RandLen == 4

\* the characters randstr.String draws from: a lower and an upper case letter
RandChars == {"x", "Y"}

RandStrings == [1..RandLen -> RandChars]

\* strings.ToLower
ToLower(str) == [i \in DOMAIN str |-> IF str[i] = "Y" THEN "y" ELSE str[i]]

\* mkClusterName with the postfix randstr.String returned
MkClusterName(prefix, rand) == ToLower(prefix \o <<Dash>> \o rand)

\* what follows the cluster name in the Name tag of a cluster's instance,
\* as in "xyz25-9kjcx-master-2"
MoreParts == {<<"x">>, <<"x", Dash, "x">>}

RoundTripInit ==
    /\ gprefix \in Prefixes
    /\ inventory = <<>>
    /\ gstatus = [Clusters |-> <<>>]
    /\ gpc = "execute"
    /\ PlanEngineAbsent
    /\ ExecutorAbsent
    /\ ControllerAbsent
    /\ LegacyAbsent
    /\ RunAbsent
    /\ ConfigAbsent

\* One pass of the create loop of Execute: the cluster is named by
\* mkClusterName and its instance carries that name followed by more parts.
ExecuteCreates ==
    /\ gpc = "execute"
    /\ Len(inventory) < MaxInstances
    /\ \E rand \in RandStrings, more \in MoreParts, t \in LaunchTimes :
         inventory' = Append(inventory,
             [Name |-> MkClusterName(gprefix, rand) \o <<Dash>> \o more,
              CreatedOn |-> t])
    /\ UNCHANGED <<gprefix, gstatus, gpc>>
    /\ UNCHANGED <<planVars, execVars, ctrlVars, legacyVars, runVars,
                   confVars>>

\* Execute returns and the next cycle of the reconcile loop begins with
\* NewArchetypeStatus.
NextCycle ==
    /\ gpc = "execute"
    /\ gpc' = "call"
    /\ UNCHANGED <<gprefix, inventory, gstatus>>
    /\ UNCHANGED <<planVars, execVars, ctrlVars, legacyVars, runVars,
                   confVars>>

RoundTripNext == ExecuteCreates \/ NextCycle \/ CallNewArchetypeStatus

SpecRoundTrip == RoundTripInit /\ [][RoundTripNext]_vars

\* --------------------------------------------------------- logRunCmd

\* the two output streams of a subprocess
Streams == {"stdout", "stderr"}

\* the per-call state when logRunCmd has made its pipes and started its two
\* log readers
FreshPipes ==
    /\ written' = [st \in Streams |-> 0]
    /\ pipe' = [st \in Streams |-> 0]
    /\ logged' = [st \in Streams |-> 0]
    /\ reader' = [st \in Streams |-> "reading"]

\* Execute is about to run its first command.
RunInit ==
    /\ rpos = "idle"
    /\ runs = 0
    /\ proc = "unstarted"
    /\ live = 0
    /\ written = [st \in Streams |-> 0]
    /\ pipe = [st \in Streams |-> 0]
    /\ logged = [st \in Streams |-> 0]
    /\ closed = [st \in Streams |-> FALSE]
    /\ reader = [st \in Streams |-> "done"]
    /\ stale = FALSE
    /\ PlanEngineAbsent
    /\ ExecutorAbsent
    /\ ControllerAbsent
    /\ LegacyAbsent
    /\ GroupAbsent
    /\ ConfigAbsent

\* Execute calls logRunCmd for the next cluster: StdoutPipe, go logReader,
\* StderrPipe, go logReader, cmd.Start.  When Start fails the pipes are
\* closed and logRunCmd returns the error, which Execute returns.  Readers
\* of the call before that have not finished are left behind.
RunStart ==
    /\ rpos = "idle"
    /\ runs < MaxRuns
    /\ runs' = runs + 1
    /\ FreshPipes
    /\ stale' = (stale \/ \E st \in Streams : reader[st] = "reading")
    /\ \/ /\ proc' = "running"
          /\ live' = live + 1
          /\ closed' = [st \in Streams |-> FALSE]
          /\ rpos' = "waiting"
       \/ /\ proc' = "unstarted"
          /\ closed' = [st \in Streams |-> TRUE]
          /\ rpos' = "stopped"
          /\ UNCHANGED live
    /\ UNCHANGED <<planVars, execVars, ctrlVars, legacyVars, groupVars,
                   confVars>>

\* The subprocess writes a line to one of its streams.
ProcWrite ==
    /\ rpos # "fatal"
    /\ proc = "running"
    /\ \E st \in Streams :
         /\ written[st] < MaxLines
         /\ written' = [written EXCEPT ![st] = @ + 1]
         /\ pipe' = [pipe EXCEPT ![st] = @ + 1]
    /\ UNCHANGED <<rpos, runs, proc, live, logged, closed, reader, stale>>
    /\ UNCHANGED <<planVars, execVars, ctrlVars, legacyVars, groupVars,
                   confVars>>

\* The subprocess exits; the write ends of its pipes close with it.
ProcExit ==
    /\ rpos # "fatal"
    /\ proc = "running"
    /\ proc' = "exited"
    /\ live' = live - 1
    /\ UNCHANGED <<rpos, runs, written, pipe, logged, closed, reader, stale>>
    /\ UNCHANGED <<planVars, execVars, ctrlVars, legacyVars, groupVars,
                   confVars>>

\* logReader: scanner.Scan() yields a line and log.Println prints it.
ReaderScan ==
    /\ rpos # "fatal"
    /\ \E st \in Streams :
         /\ reader[st] = "reading"
         /\ ~closed[st]
         /\ pipe[st] > 0
         /\ pipe' = [pipe EXCEPT ![st] = @ - 1]
         /\ logged' = [logged EXCEPT ![st] = @ + 1]
    /\ UNCHANGED <<rpos, runs, proc, live, written, closed, reader, stale>>
    /\ UNCHANGED <<planVars, execVars, ctrlVars, legacyVars, groupVars,
                   confVars>>

\* logReader: the pipe is empty and its write end closed, Scan reports the
\* end of the stream and the goroutine ends.
ReaderEOF ==
    /\ rpos # "fatal"
    /\ \E st \in Streams :
         /\ reader[st] = "reading"
         /\ ~closed[st]
         /\ pipe[st] = 0
         /\ proc = "exited"
         /\ reader' = [reader EXCEPT ![st] = "done"]
    /\ UNCHANGED <<rpos, runs, proc, live, written, pipe, logged, closed,
                   stale>>
    /\ UNCHANGED <<planVars, execVars, ctrlVars, legacyVars, groupVars,
                   confVars>>

\* logReader: the read end was closed under the reader: the read fails,
\* scanner.Err() is not nil and log.Fatalf ends the whole process.  The same
\* happens to a reader left behind by an earlier call.
ReaderClosed ==
    /\ rpos # "fatal"
    /\ \/ /\ \E st \in Streams :
               /\ reader[st] = "reading"
               /\ closed[st]
               /\ reader' = [reader EXCEPT ![st] = "failed"]
          /\ UNCHANGED stale
       \/ /\ stale
          /\ UNCHANGED <<reader, stale>>
    /\ rpos' = "fatal"
    /\ UNCHANGED <<runs, proc, live, written, pipe, logged, closed>>
    /\ UNCHANGED <<planVars, execVars, ctrlVars, legacyVars, groupVars,
                   confVars>>

\* logRunCmd returning without waiting for the subprocess to exit.
WaitReturnsEarly ==
    /\ rpos = "waiting"
    /\ closed' = [st \in Streams |-> TRUE]
    /\ \/ rpos' = "idle"
       \/ rpos' = "stopped"
    /\ UNCHANGED <<runs, proc, live, written, pipe, logged, reader, stale>>
    /\ UNCHANGED <<planVars, execVars, ctrlVars, legacyVars, groupVars,
                   confVars>>

\* cmd.Wait returns once the subprocess has exited and closes the read ends
\* of both pipes; logRunCmd returns Wait's result.  On an error Execute
\* returns, otherwise it goes on.
WaitReturns ==
    /\ rpos = "waiting"
    /\ proc = "exited"
    /\ closed' = [st \in Streams |-> TRUE]
    /\ \/ rpos' = "idle"
       \/ rpos' = "stopped"
    /\ UNCHANGED <<runs, proc, live, written, pipe, logged, reader, stale>>
    /\ UNCHANGED <<planVars, execVars, ctrlVars, legacyVars, groupVars,
                   confVars>>

\* The plan needs no further command: Execute returns nil.
ExecuteEnds ==
    /\ rpos = "idle"
    /\ rpos' = "stopped"
    /\ UNCHANGED <<runs, proc, live, written, pipe, logged, closed, reader,
                   stale>>
    /\ UNCHANGED <<planVars, execVars, ctrlVars, legacyVars, groupVars,
                   confVars>>

RunNext ==
    \/ RunStart
    \/ ProcWrite
    \/ ProcExit
    \/ ReaderScan
    \/ ReaderEOF
    \/ ReaderClosed
    \/ WaitReturns
    \/ ExecuteEnds

SpecRun == RunInit /\ [][RunNext]_vars

\* ------------------------------------------------------- Config.String

\* contents of the pull secret file; "" is the empty file
Secrets == {"", "secret one", "secret two"}

Paths == {"/etc/pull-secret", "./pull-secret"}

StateDirs == {"/var/lib/auto-cluster", "./state"}

\* config.Config; Archetypes is given by the number of its entries
Config ==
    [Archetypes : 1..MaxArchetypes, PullSecretPath : Paths,
     StateDir : StateDirs, PullSecret : Secrets]

\* redact
redact(in) == IF in # "" THEN "REDACTED_NOT_EMPTY" ELSE ""

\* fmt.Sprintf("%#v", c): the type name, then every field with its name
\* and the Go syntax of its value
GoSyntax(c) ==
    <<"config.Config",
      <<"Archetypes", c.Archetypes>>,
      <<"PullSecretPath", "quoted", c.PullSecretPath>>,
      <<"StateDir", "quoted", c.StateDir>>,
      <<"PullSecret", "quoted", c.PullSecret>>>>

\* String() with the secret printed as it is.
StringUnredacted(receiver) ==
    [result |-> GoSyntax(receiver), receiver |-> receiver]

\* func (c Config) String(): c is a copy of the receiver, the redacted
\* secret is assigned to the copy, and the copy is formatted.
String(receiver) ==
    LET c == [receiver EXCEPT !.PullSecret = redact(receiver.PullSecret)]
    IN [result |-> GoSyntax(c), receiver |-> receiver]

\* main after config.NewConfig() returned cfg; twin is what it would have
\* returned with another pull secret file.
ConfigInit ==
    /\ conf \in Config
    /\ twin \in {c \in Config : [c EXCEPT !.PullSecret = ""] =
                                [conf EXCEPT !.PullSecret = ""]}
    /\ loaded = [conf |-> conf, twin |-> twin]
    /\ shown = [conf |-> NoValue, twin |-> NoValue]
    /\ PlanEngineAbsent
    /\ ExecutorAbsent
    /\ ControllerAbsent
    /\ LegacyAbsent
    /\ GroupAbsent
    /\ RunAbsent

\* log.Printf("loaded configuration=%s", cfg): fmt calls cfg.String().
PrintConfig ==
    /\ shown.conf = NoValue
    /\ LET call == String(conf)
       IN /\ shown' = [shown EXCEPT !.conf = call.result]
          /\ conf' = call.receiver
    /\ UNCHANGED <<twin, loaded>>
    /\ UNCHANGED <<planVars, execVars, ctrlVars, legacyVars, groupVars,
                   runVars>>

\* the same statement in the run that loaded twin
PrintTwin ==
    /\ shown.twin = NoValue
    /\ LET call == String(twin)
       IN /\ shown' = [shown EXCEPT !.twin = call.result]
          /\ twin' = call.receiver
    /\ UNCHANGED <<conf, loaded>>
    /\ UNCHANGED <<planVars, execVars, ctrlVars, legacyVars, groupVars,
                   runVars>>

ConfigNext == PrintConfig \/ PrintTwin

SpecConfig == ConfigInit /\ [][ConfigNext]_vars

\* ------------------------------------------------------------ properties

\* the elements of a sequence
Range(s) == { s[i] : i \in 1..Len(s) }

\* The age of a cluster when NewArchetypePlan is called.
AgeAtCall(cluster) == CallTime - cluster.CreatedOn

\* The age of a cluster at the last clock reading of the run.
AgeAtEnd(cluster) == since[Len(since)] - cluster.CreatedOn

\* The clock stood still during the run: every time.Since call read the
\* same instant.
SingleNow == \A i \in 1..Len(since) : since[i] = since[1]

\* The primary candidate chosen at plan.go:56-58, &status.Clusters[0] of
\* the sorted slice.
PrimaryCandidate == status[1]

\* C1: once NewArchetypePlan has been called, for any status, it has returned
\* a plan, and every cluster whose age is >= deleteAfter is in the plan's
\* deleteClusters.
C1_ExpiredAreDeleted ==
    pc # "call" =>
        \A c \in Range(statusBefore) :
            AgeAtCall(c) >= spec.DeleteAfterDuration
                => (pc = "returned" /\ c \in Range(plan.DeleteClusters))

\* C2: NewArchetypePlan is total, no call ends in a panic.
C2_NeverPanics == pc # "panicked"

\* C3: every returned plan converges the replica count:
\* len(status.clusters) + createClusters - len(deleteClusters) = replicaCount.
C3_ReplicaCountConverges ==
    pc = "returned" =>
        Len(statusBefore) + plan.CreateClusters - Len(plan.DeleteClusters)
            = spec.Count

\* C3 witness: a returned plan that both creates and deletes.
C3_Witness ==
    /\ pc = "returned"
    /\ Len(statusBefore) >= 2
    /\ plan.CreateClusters >= 1
    /\ Len(plan.DeleteClusters) >= 1
    /\ Cardinality(Range(plan.DeleteClusters)) = Len(plan.DeleteClusters)

\* the deletions appended by the replica-count step
ExcessDeleted ==
    { plan.DeleteClusters[i] : i \in (collected + 1)..Len(plan.DeleteClusters) }

\* the clusters garbage collection left alone
Survivors ==
    Range(statusBefore)
        \ { plan.DeleteClusters[i] : i \in 1..collected }

\* C4: the clusters deleted to get down to replicaCount are the oldest
\* survivors: no survivor that is kept was created before a cluster that
\* the replica-count step deleted, and clusters of one age with
\* replicaCount below their number lose exactly the excess, createClusters 0.
\* Stated for the runs in which all ages are taken at one instant.
C4_ExcessDeletesOldest ==
    (pc = "returned" /\ SingleNow) =>
        /\ \A d \in ExcessDeleted : \A k \in Survivors \ ExcessDeleted :
               ~Before(k.CreatedOn, d.CreatedOn)
        /\ ( /\ collected = 0
             /\ primCluster # 0
             /\ AgeAtEnd(PrimaryCandidate) < spec.OldestPrimaryDuration
             /\ Len(statusBefore) > spec.Count )
               => /\ Len(plan.DeleteClusters) = Len(statusBefore) - spec.Count
                  /\ plan.CreateClusters = 0

\* C5: with several clusters the primary candidate is the newest one.
C5_PrimaryIsNewest ==
    (pc = "returned" /\ Len(statusBefore) >= 2) =>
        \A c \in Range(statusBefore) :
            ~Before(PrimaryCandidate.CreatedOn, c.CreatedOn)

\* C6: with len(clusters) = replicaCount and every cluster younger than both
\* deleteAfter and oldestPrimary throughout the run, the plan is empty.
C6_SteadyStateEmptyPlan ==
    ( /\ pc # "call"
      /\ Len(statusBefore) = spec.Count
      /\ \A c \in Range(statusBefore) :
             /\ AgeAtEnd(c) < spec.DeleteAfterDuration
             /\ AgeAtEnd(c) < spec.OldestPrimaryDuration )
        => (pc = "returned" /\ plan = EmptyPlan)

\* C6 witness: a steady status of several clusters got the empty plan.
C6_Witness ==
    /\ pc = "returned"
    /\ Len(statusBefore) >= 2
    /\ Len(statusBefore) = spec.Count
    /\ \A c \in Range(statusBefore) :
           /\ AgeAtEnd(c) < spec.DeleteAfterDuration
           /\ AgeAtEnd(c) < spec.OldestPrimaryDuration
    /\ plan = EmptyPlan

\* C7: when the primary candidate survives garbage collection and its age
\* is >= oldestPrimary, the returned plan creates at least one cluster.
C7_OldPrimaryIsReplaced ==
    ( /\ pc = "returned"
      /\ primCluster # 0
      /\ AgeAtEnd(status[primCluster]) >= spec.OldestPrimaryDuration )
        => plan.CreateClusters >= 1

\* C7 witness: the candidate was too old while the replica count was
\* already met or exceeded.
C7_Witness ==
    /\ pc = "returned"
    /\ primCluster # 0
    /\ AgeAtEnd(status[primCluster]) >= spec.OldestPrimaryDuration
    /\ Len(statusBefore) >= spec.Count
    /\ Len(statusBefore) >= 2
    /\ plan.CreateClusters >= 1

\* C8: after the call the caller's status.Clusters holds the same clusters
\* in the same order as before.
C8_StatusNotMutated == pc = "returned" => status = statusBefore

\* C9: a run on the same spec and the same set of clusters, listed in any
\* order, returns the plan this run returned: it deletes the same clusters
\* and creates as many.  Stated for the runs in which one single now is
\* used for all age comparisons.
C9_Deterministic ==
    (pc = "returned" /\ SingleNow) =>
        \A listed \in Arrangements(statusBefore) :
            \A sorted \in SortSlice(listed) :
                LET r == NewArchetypePlan(spec, sorted, since) IN
                /\ r.panic = "none"
                /\ Range(r.DeleteClusters) = Range(plan.DeleteClusters)
                /\ r.CreateClusters = plan.CreateClusters

\* C10: for a fixed status, if neither plan deletes a cluster, raising
\* replicaCount by k raises createClusters by exactly k.
C10_CreateMonotone ==
    (pc = "returned" /\ plan.DeleteClusters = <<>>) =>
        \A k \in 1..MaxRaise :
            \A sorted \in SortSlice(statusBefore) :
                \A snc \in Readings(Len(statusBefore) + 1) :
                    LET r == NewArchetypePlan(
                                 [spec EXCEPT !.Count = @ + k], sorted, snc)
                    IN  (r.panic = "none" /\ r.DeleteClusters = <<>>)
                            => r.CreateClusters = plan.CreateClusters + k

\* C10 witness: a plan over a non-empty status that deletes nothing and
\* whose replicaCount can be raised without triggering a deletion.
C10_Witness ==
    /\ pc = "returned"
    /\ Len(statusBefore) >= 1
    /\ plan.DeleteClusters = <<>>
    /\ plan.CreateClusters >= 1
    /\ LET r == NewArchetypePlan([spec EXCEPT !.Count = @ + 1], status, since)
       IN  r.panic = "none" /\ r.DeleteClusters = <<>>

\* the primary check at plan.go:74-75 held: the candidate survived garbage
\* collection and was too old at the reading of that check
Reelected ==
    /\ primCluster # 0
    /\ AgeAtEnd(status[primCluster]) >= spec.OldestPrimaryDuration

\* the count after garbage collection and re-election (plan.go:82-83)
AfterCount ==
    Len(statusBefore) + (IF Reelected THEN 1 ELSE 0) - collected

\* C11: when the count after garbage collection and re-election is below
\* replicaCount, createClusters grows by exactly the shortfall and nothing
\* more is deleted; an empty cluster list with replicaCount R gives
\* createClusters = R and no deletions.
C11_ShortfallIsCreated ==
    pc = "returned" =>
        /\ AfterCount < spec.Count =>
               /\ plan.CreateClusters =
                      (IF Reelected THEN 1 ELSE 0) + (spec.Count - AfterCount)
               /\ Len(plan.DeleteClusters) = collected
        /\ statusBefore = <<>> =>
               /\ plan.CreateClusters = spec.Count
               /\ plan.DeleteClusters = <<>>

\* C11 witness: a non-empty status fell short of replicaCount and the
\* shortfall was added to createClusters.
C11_Witness ==
    /\ pc = "returned"
    /\ Len(statusBefore) >= 1
    /\ AfterCount < spec.Count
    /\ plan.CreateClusters = spec.Count - AfterCount
    /\ plan.DeleteClusters = <<>>

\* the runs of "openshift-install create cluster" so far
CreateRuns ==
    { k \in 1..Len(invocations) : invocations[k].action = "create" }

\* the runs of "openshift-install destroy cluster" so far
DestroyRuns ==
    { k \in 1..Len(invocations) : invocations[k].action = "destroy" }

\* Execute has returned
ExecReturned == epc \in {"done", "failed"}

\* C12: two create actions of one Execute pass never get the same cluster
\* name, and no generated name is the name of a cluster of the observed
\* status, whatever the random generator returns.
C12_CreatedNamesUnique ==
    /\ \A a, b \in CreateRuns :
           a # b => invocations[a].name # invocations[b].name
    /\ \A a \in CreateRuns :
           \A c \in Range(status) : invocations[a].name # c.Name

\* C13: if the provisioning tool fails for one cluster, only that creation
\* is aborted: when Execute returns, every creation and every deletion of
\* the plan has been attempted.
C13_CreateFailureIsolated ==
    ( /\ ExecReturned
      /\ \E a \in CreateRuns : ~invocations[a].ok )
        => /\ Cardinality(CreateRuns) = plan.CreateClusters
           /\ Cardinality(DestroyRuns) = Len(plan.DeleteClusters)

\* C14: if the teardown tool fails for one cluster of plan.DeleteClusters,
\* the teardown of every other cluster of DeleteClusters is still attempted
\* before Execute returns.
C14_DeleteFailureIsolated ==
    ( /\ ExecReturned
      /\ \E d \in DestroyRuns : ~invocations[d].ok )
        => \A k \in 1..Len(plan.DeleteClusters) :
               \E d \in DestroyRuns :
                   invocations[d].name = plan.DeleteClusters[k].Name


\* C15: a failed reconcile cycle does not stop the controller: the process
\* is never ended because a cycle returned an error.
C15_FailedCycleKeepsRunning == rpc # "fatal"

\* C16: when the status of one archetype cannot be resolved, the cycle has
\* still begun the pass of every configured archetype by the time it is
\* over.
C16_StatusFailureIsolated ==
    (statusFailed # 0 /\ rpc # "cycle") => attempted = 1..archetypes

\* C17: once the context is cancelled no reconcile cycle starts, and Run
\* does not return on cancellation in the middle of a cycle.
C17_NoCycleAfterCancel ==
    [][/\ cancelled => cycles' = cycles
       /\ rpc = "cycle" => rpc' # "completed"]_vars

\* C18: a reconcile cycle starts only when no cycle is in progress, every
\* earlier cycle has finished, and the timer has fired that was armed with
\* no wait at Run for the first cycle, and with reconcileLoopWait at the end
\* of the previous cycle for every later one.
C18_CyclesNeverOverlap ==
    [][cycles' # cycles =>
          /\ rpc = "select"
          /\ finished = cycles
          /\ timer = "ready"
          /\ armedAfter = cycles
          /\ timerWait = IF cycles = 0 THEN 0 ELSE ReconcileLoopWait]_vars

\* a second cycle is running
C18_Witness == rpc = "cycle" /\ cycles = 2 /\ finished = 1


\* C19: in dry-run mode nothing external is done.  The controller never
\* calls Executor.Execute, the only place that invokes the tool or writes a
\* state directory; the legacy loop executes no create, migrate or Helm
\* install, DNS update or delete.
C19_DryRunHasNoEffect ==
    /\ (rpc # NoValue /\ dryRun) => executions = 0
    /\ (lpc # NoValue /\ flags.DryRun) => Effects = <<>>

\* a dry-run cycle of the controller has planned for every archetype
C19_Witness == dryRun /\ finished >= 1 /\ attempted = 1..archetypes

\* C20: with -no-dns no Cloudflare DNS record is updated in any iteration
\* of the control loop.
C20_NoDNSMeansNoUpdate ==
    flags.NoDNS =>
        \A i \in DOMAIN done : ~(done[i].kind = "dns" /\ done[i].executed)


\* C21: the Helm chart is installed only on a cluster created in the current
\* pass, never on a cluster that existed before the pass.
C21_InstallOnlyOnNewClusters ==
    \A i \in DOMAIN done :
        (done[i].kind = "helm" /\ done[i].executed /\ done[i].ok) =>
            /\ done[i].target \in lplan.Create
            /\ done[i].target \notin DOMAIN lstate.clusters


\* the instances NewArchetypeStatus kept from the inventory
Kept == Matching(inventory, gprefix)

\* the first of "", parts[0], parts[0]-parts[1], ..., the whole name, that
\* starts with the prefix
FirstMatch(instanceName, prefix) ==
    LET parts == Split(instanceName)
        Fits(k) == HasPrefix(Join(parts, k), prefix)
        first == CHOOSE k \in 0..Len(parts) :
                     Fits(k) /\ \A j \in 0..(k - 1) : ~Fits(j)
    IN Join(parts, first)

\* the clusters of the returned status
Returned == Range(gstatus.Clusters)

\* status.Clusters flattened back to instances
RECURSIVE FlattenFrom(_, _)
FlattenFrom(clusters, i) ==
    IF i > Len(clusters) THEN <<>>
    ELSE clusters[i].Instances \o FlattenFrom(clusters, i + 1)

Flattened == FlattenFrom(gstatus.Clusters, 1)

\* how often v occurs in a sequence
Count(seq, v) == Cardinality({i \in DOMAIN seq : seq[i] = v})

\* C22: every kept instance is in the cluster named by the first rejoined
\* prefix of its name that starts with namePrefix, and no two clusters of the
\* status have the same name.
C22_NameIsFirstMatchingPrefix ==
    gpc = "returned" =>
        /\ \A instance \in Range(Kept) :
             \E c \in Returned :
                /\ instance \in Range(c.Instances)
                /\ c.Name = FirstMatch(instance.Name, gprefix)
        /\ \A i, j \in DOMAIN gstatus.Clusters :
             gstatus.Clusters[i].Name = gstatus.Clusters[j].Name => i = j

\* C23: an instance named exactly namePrefix is in a cluster that has its
\* name and holds nothing but instances of that name.
C23_BarePrefixFormsCluster ==
    gpc = "returned" =>
        \A instance \in Range(Kept) :
            instance.Name = gprefix =>
                \E c \in Returned :
                    /\ c.Name = instance.Name
                    /\ instance \in Range(c.Instances)
                    /\ \A other \in Range(c.Instances) :
                          other.Name = instance.Name

\* C24: the name of every cluster of the returned status starts with
\* namePrefix.
C24_ClusterNamesHavePrefix ==
    gpc = "returned" => \A c \in Returned : HasPrefix(c.Name, gprefix)

\* C25: grouping is a partition of the kept instances: each occurs in the
\* clusters as often as in the inventory, nothing else occurs, cluster names
\* are pairwise distinct and no cluster is empty.
C25_GroupingIsPartition ==
    gpc = "returned" =>
        /\ \A instance \in Range(Kept) :
             Count(Flattened, instance) = Count(Kept, instance)
        /\ Range(Flattened) \subseteq Range(Kept)
        /\ \A i, j \in DOMAIN gstatus.Clusters :
             gstatus.Clusters[i].Name = gstatus.Clusters[j].Name => i = j
        /\ \A c \in Returned : c.Instances # <<>>

\* two different instances were grouped into one cluster while a third
\* entry of the inventory, if any, went elsewhere
C25_Witness ==
    /\ gpc = "returned"
    /\ \E c \in Returned :
         /\ Len(c.Instances) = 2
         /\ c.Instances[1] # c.Instances[2]
         /\ HasPrefix(c.Name, gprefix)

\* C26: the CreatedOn of every properly named cluster of the returned status
\* is the least CreatedOn of its instances.
C26_CreatedOnIsMinimum ==
    gpc = "returned" =>
        \A c \in Returned :
            HasPrefix(c.Name, gprefix) =>
                \A instance \in Range(c.Instances) :
                    c.CreatedOn <= instance.CreatedOn


\* C27: once a reconcile cycle has finished, the wait the timer is armed
\* with is 15 minutes (timerWait is in seconds).
C27_WaitIsFifteenMinutes == finished > 0 => timerWait = 15 * 60


\* C28: the subprocesses of one Execute pass never overlap: at most one is
\* alive, and none is alive when Execute is between two logRunCmd calls.
C28_SubprocessesNeverOverlap ==
    /\ live <= 1
    /\ rpos = "idle" => live = 0

\* a second subprocess is running after the first has exited
C28_Witness == runs = 2 /\ proc = "running" /\ live = 1

\* C29: when logRunCmd has returned the result of a subprocess, every line
\* the subprocess wrote to stdout or stderr has been logged.
C29_ReadersJoinedBeforeReturn ==
    (rpos \in {"idle", "stopped"} /\ proc = "exited") =>
        \A st \in Streams : logged[st] = written[st]


\* C30: the search for a unique name is over as soon as a pass over the
\* known clusters has met no known name.
C30_NameSearchEnds == epc = "naming" => passClashed


\* the cluster name the Executor gave to the cluster of an instance it made
CreatedName(instanceName) == SubSeq(instanceName, 1, Len(gprefix) + 1 + RandLen)

\* C31: the grouping gives every instance of a cluster the Executor created
\* the name mkClusterName produced for that cluster, so two created clusters
\* are never merged into one ClusterStatus
C31_NamingRoundTrip ==
    gpc = "returned" =>
        \A c \in Returned : \A k \in DOMAIN c.Instances :
            c.Name = CreatedName(c.Instances[k].Name)


\* the observed clusters that are not older than OldestAge
YoungObserved ==
    {c \in DOMAIN lstate.clusters : lstate.clusters[c] <= OldestAge}

\* C32: with more than one young cluster the primary cluster is the youngest
\* of them, every other young cluster is planned for deletion and the
\* primary cluster is not
C32_PrimaryIsYoungestAndKept ==
    Cardinality(YoungObserved) > 1 =>
        /\ lplan.Primary \in YoungObserved
        /\ \A c \in YoungObserved :
               lstate.clusters[lplan.Primary] <= lstate.clusters[c]
        /\ YoungObserved \ {lplan.Primary} \subseteq lplan.Delete
        /\ lplan.Primary \notin lplan.Delete


\* the targets of the steps of one kind that were carried out with success
\* among the first n steps of the iteration
SucceededBefore(kind, n) ==
    {done[j].target : j \in {k \in 1..n : /\ done[k].kind = kind
                                          /\ done[k].executed
                                          /\ done[k].ok}}

\* C33: when a teardown is started, every planned creation, the migration or
\* Helm install and every planned DNS update of the iteration have been
\* carried out with success
C33_TeardownComesLast ==
    \A i \in DOMAIN done :
        (done[i].kind = "delete" /\ done[i].executed) =>
            /\ lplan.Create \subseteq SucceededBefore("create", i - 1)
            /\ lplan.Second => SucceededBefore(SecondKind, i - 1) # {}
            /\ lplan.Set \subseteq SucceededBefore("dns", i - 1)

\* a teardown was carried out in an iteration that also planned a creation,
\* a second action and a DNS update
C33_Witness ==
    /\ lplan.Create # {}
    /\ lplan.Second
    /\ lplan.Set # {}
    /\ \E i \in DOMAIN done : done[i].kind = "delete" /\ done[i].executed


\* the iteration ran its execute stage to the end
IterationCompleted == lpc \in {"wait", "exited"} /\ lplan # NothingPlanned

\* The cluster record r points to after the steps carried out so far:
\* cf.UpdateDNSRecord stores the content in which the record's cluster name
\* is replaced by the name of the primary cluster.
PointsTo(r) ==
    IF r \in SucceededBefore("dns", Len(done)) THEN lplan.Primary
    ELSE lstate.records[r]

C35_SecondHasObservedSource ==
    lplan.Second =>
        /\ lplan.SecondOn # NoCluster
        /\ lplan.SecondOn \in DOMAIN lstate.clusters


\* C36: in one Execute every destroy invocation comes after all the create
\* invocations of the plan, each of which has ended with success
C36_CreationsPrecedeDeletions ==
    \A i \in DOMAIN invocations :
        invocations[i].action = "destroy" =>
            /\ Cardinality({j \in 1..(i - 1) :
                               /\ invocations[j].action = "create"
                               /\ invocations[j].ok}) = plan.CreateClusters
            /\ \A j \in DOMAIN invocations :
                   invocations[j].action = "create" => j < i

\* a destroy invocation of a plan that also creates
C36_Witness ==
    /\ plan.CreateClusters > 0
    /\ \E i \in DOMAIN invocations : invocations[i].action = "destroy"


\* C37: once the interrupt has cancelled the context and no cycle is in
\* progress, the only step Run takes is to return nil, upon which main logs
\* "completed graceful shutdown"; it does not run another cycle
C37_ShutdownWithoutAnotherCycle ==
    [][(cancelled /\ rpc = "select") => rpc' \in {"select", "completed"}]_vars


\* C38: the String() outputs of two Configs that differ only in the contents
\* of a non-empty PullSecret are the same, and the call leaves the
\* receiver's PullSecret as it was
C38_StringHidesPullSecret ==
    /\ (/\ shown.conf # NoValue
        /\ shown.twin # NoValue
        /\ loaded.conf.PullSecret # ""
        /\ loaded.twin.PullSecret # "") => shown.conf = shown.twin
    /\ shown.conf # NoValue => conf.PullSecret = loaded.conf.PullSecret
    /\ shown.twin # NoValue => twin.PullSecret = loaded.twin.PullSecret

\* both Configs were printed and their pull secrets are different and not
\* empty
C38_Witness ==
    /\ shown.conf # NoValue
    /\ shown.twin # NoValue
    /\ loaded.conf.PullSecret # ""
    /\ loaded.twin.PullSecret # ""
    /\ loaded.conf.PullSecret # loaded.twin.PullSecret

====
